---- MODULE Spec2Model ----
(***************************************************************************)
(* srcpos: the Pos / Loc value types of src/lib.rs and their conversions.  *)
(*                                                                         *)
(* The library is a set of pure functions.  The state of the model is a    *)
(* chain of calls: vals[1] is a value written by the caller, and every     *)
(* step applies one function of the library to the last value of the chain *)
(* and appends the result; ops records which function each step applied.   *)
(*                                                                         *)
(* Values are tagged with their Rust type (field ty), because a tuple      *)
(* (a, b) and an array [a, b] are different types with different           *)
(* conversions.  Tuples and arrays are TLA+ sequences, structs and ranges  *)
(* are records with the fields' names.                                     *)
(***************************************************************************)
EXTENDS Naturals, Sequences, FiniteSets

\* largest usize the model enumerates; no function of the library does
\* arithmetic, so the machine width of usize never matters
MaxVal == 2
\* longest chain of calls
MaxChain == 2
\* largest usize in the fields of the two Locs of a comparison
MaxCmpVal == 1

VARIABLES vals, ops
vars == <<vals, ops>>

Usize == 0..MaxVal

----------------------------------------------------------------------------
\* struct Pos { line, column }

Pos_new(line, column) == [line |-> line, column |-> column]

\* mutation: only the line is set
Pos_new_same_line_only(value) == Pos_new(value, 0)

Pos_new_same(value) == Pos_new(value, value)

\* mutation: the first column is 1
Pos_zero_column_one == Pos_new(0, 1)

Pos_zero == Pos_new_same(0)

Pos_default == Pos_zero

Pos_from_tuple2(t) == Pos_new(t[1], t[2])

Pos_from_arr2(a) == Pos_new(a[1], a[2])

Pos_into_tuple2(self) == <<self.line, self.column>>

Pos_into_arr2(self) == <<self.line, self.column>>

Pos_from_usize(value) == Pos_new_same(value)

Pos_into_usize(self) == self.line

Pos_from_arr1(a) == Pos_new_same(a[1])

Pos_into_arr1(self) == <<self.line>>

Pos_from_unit(u) == Pos_zero

Pos_from_arr0(a) == Pos_zero

pos(line, column) == Pos_new(line, column)

\* usize::cmp
usize_cmp(x, y) == IF x < y THEN "Less" ELSE IF x = y THEN "Equal" ELSE "Greater"

\* derive(PartialOrd, Ord): the fields in declaration order, the first
\* field that differs decides
\* mutation: the column is compared before the line
Pos_cmp_column_first(self, other) ==
    IF usize_cmp(self.column, other.column) # "Equal"
    THEN usize_cmp(self.column, other.column)
    ELSE usize_cmp(self.line, other.line)

Pos_cmp(self, other) ==
    IF usize_cmp(self.line, other.line) # "Equal"
    THEN usize_cmp(self.line, other.line)
    ELSE usize_cmp(self.column, other.column)

\* derive(PartialEq, Eq): every field equal
Pos_eq(self, other) == self.line = other.line /\ self.column = other.column

----------------------------------------------------------------------------
\* struct Loc { from, to }

\* mutation: the ends are put in order
Loc_new_ordered(from, to) ==
    IF Pos_cmp(from, to) = "Greater"
    THEN [from |-> to, to |-> from]
    ELSE [from |-> from, to |-> to]

Loc_new(from, to) == [from |-> from, to |-> to]

\* mutation: the fields of the second position are swapped
Loc_new_at_swapped(from_line, from_column, to_line, to_column) ==
    Loc_new(Pos_new(from_line, from_column), Pos_new(to_column, to_line))

Loc_new_at(from_line, from_column, to_line, to_column) ==
    Loc_new(Pos_new(from_line, from_column), Pos_new(to_line, to_column))

Loc_new_same_pos(p) == Loc_new(p, p)

Loc_zero == Loc_new_same_pos(Pos_zero)

Loc_new_same(value) == Loc_new_same_pos(Pos_new_same(value))

Loc_default == Loc_zero

Loc_from_tuple4(t) == Loc_new_at(t[1], t[2], t[3], t[4])

\* mutation: the line of from stands where its column should
Loc_into_tuple4_line_twice(self) ==
    <<self.from.line, self.from.line, self.to.line, self.to.column>>

Loc_into_tuple4(self) ==
    <<self.from.line, self.from.column, self.to.line, self.to.column>>

Loc_from_arr4(a) == Loc_new_at(a[1], a[2], a[3], a[4])

Loc_into_arr4(self) ==
    <<self.from.line, self.from.column, self.to.line, self.to.column>>

Loc_from_tuple2x2(t) == Loc_new_at(t[1][1], t[1][2], t[2][1], t[2][2])

Loc_into_tuple2x2(self) ==
    <<<<self.from.line, self.from.column>>, <<self.to.line, self.to.column>>>>

Loc_from_arr2x2(a) == Loc_new_at(a[1][1], a[1][2], a[2][1], a[2][2])

Loc_into_arr2x2(self) ==
    <<<<self.from.line, self.from.column>>, <<self.to.line, self.to.column>>>>

Loc_from_arrtup2(a) == Loc_new_at(a[1][1], a[1][2], a[2][1], a[2][2])

Loc_into_arrtup2(self) ==
    <<<<self.from.line, self.from.column>>, <<self.to.line, self.to.column>>>>

Loc_from_tuparr2(t) == Loc_new_at(t[1][1], t[1][2], t[2][1], t[2][2])

Loc_into_tuparr2(self) ==
    <<<<self.from.line, self.from.column>>, <<self.to.line, self.to.column>>>>

Loc_from_tuple2(t) == Loc_new_same_pos(Pos_new(t[1], t[2]))

Loc_into_tuple2(self) == <<self.from.line, self.from.column>>

Loc_from_arr2(a) == Loc_new_same_pos(Pos_new(a[1], a[2]))

Loc_into_arr2(self) == <<self.from.line, self.from.column>>

Loc_from_usize(value) == Loc_new_same(value)

\* mutation: the line of to
Loc_into_usize_of_to(self) == self.to.line

Loc_into_usize(self) == self.from.line

Loc_from_arr1(a) == Loc_new_same(a[1])

Loc_into_arr1(self) == <<self.from.line>>

Loc_from_unit(u) == Loc_zero

Loc_from_arr0(a) == Loc_zero

Loc_from_Range(r) == Loc_new(r.start, r.end)

Loc_into_Range(self) == [start |-> self.from, end |-> self.to]

\* mutation: the end is broadcast
Loc_from_RangeTo_same(r) == Loc_new(r.end, r.end)

Loc_from_RangeTo(r) == Loc_new(Pos_zero, r.end)

Loc_into_RangeTo(self) == [end |-> self.to]

\* the start of the range is self.to
Loc_into_RangeFrom(self) == [start |-> self.to]

Loc_from_tuplePos2(t) == Loc_new(t[1], t[2])

Loc_into_tuplePos2(self) == <<self.from, self.to>>

Loc_from_arrPos2(a) == Loc_new(a[1], a[2])

Loc_into_arrPos2(self) == <<self.from, self.to>>

\* mutation: the position is taken as an end only
Loc_from_Pos_up_to(p) == Loc_new(Pos_zero, p)

Loc_from_Pos(p) == Loc_new_same_pos(p)

Loc_into_Pos(self) == self.from

Loc_from_arrPos1(a) == Loc_new_same_pos(a[1])

Loc_into_arrPos1(self) == <<self.from>>

loc(from, to) == Loc_new(from, to)

\* derive(PartialOrd, Ord): from first, then to
Loc_cmp(self, other) ==
    IF Pos_cmp(self.from, other.from) # "Equal"
    THEN Pos_cmp(self.from, other.from)
    ELSE Pos_cmp(self.to, other.to)

\* derive(PartialEq, Eq)
Loc_eq(self, other) == Pos_eq(self.from, other.from) /\ Pos_eq(self.to, other.to)

----------------------------------------------------------------------------
\* the values of each Rust type, over Usize

PosSet == [line : Usize, column : Usize]

LocSet == [from : PosSet, to : PosSet]

\* the Locs that are compared with each other
CmpPosSet == [line : 0..MaxCmpVal, column : 0..MaxCmpVal]

CmpLocSet == [from : CmpPosSet, to : CmpPosSet]

Types ==
    {"noargs", "usize", "args2", "tuple2", "arr2", "arr1", "unit", "arr0",
     "Pos", "PosPos", "args4", "tuple4", "arr4", "tuple2x2", "arr2x2",
     "arrtup2", "tuparr2", "Loc", "LocLoc", "Range", "RangeTo", "RangeFrom",
     "tuplePos2", "arrPos2", "arrPos1", "Ordering", "bool"}

\* the types only results have
ResultTypes == {"RangeFrom", "Ordering", "bool"}

Dom(ty) ==
    CASE ty \in {"noargs", "unit", "arr0"} -> {<<>>}
      [] ty = "usize" -> Usize
      [] ty = "arr1" -> {<<x>> : x \in Usize}
      [] ty \in {"args2", "tuple2", "arr2"} -> Usize \X Usize
      [] ty \in {"args4", "tuple4", "arr4"} -> Usize \X Usize \X Usize \X Usize
      [] ty \in {"tuple2x2", "arr2x2", "arrtup2", "tuparr2"} ->
            (Usize \X Usize) \X (Usize \X Usize)
      [] ty = "Pos" -> PosSet
      [] ty = "arrPos1" -> {<<p>> : p \in PosSet}
      [] ty \in {"PosPos", "tuplePos2", "arrPos2"} -> PosSet \X PosSet
      [] ty = "Loc" -> LocSet
      [] ty = "LocLoc" -> CmpLocSet \X CmpLocSet
      [] ty = "Range" -> [start : PosSet, end : PosSet]
      [] ty = "RangeTo" -> [end : PosSet]
      [] ty = "RangeFrom" -> [start : PosSet]
      [] ty = "Ordering" -> {"Less", "Equal", "Greater"}
      [] ty = "bool" -> BOOLEAN

Value(ty, v) == [ty |-> ty, v |-> v]

\* what a caller can write down as the argument of a call
Inputs == UNION {{Value(ty, x) : x \in Dom(ty)} : ty \in Types \ ResultTypes}

\* the last value of the chain, the argument of the next call
Arg == vals[Len(vals)].v

ArgTy == vals[Len(vals)].ty

Init ==
    /\ vals \in {<<x>> : x \in Inputs}
    /\ ops = <<>>

\* one call: name applied to the last value of the chain, of type inTy,
\* returns result, of type outTy
Call(name, inTy, outTy, result) ==
    /\ Len(ops) < MaxChain
    /\ ArgTy = inTy
    /\ vals' = Append(vals, Value(outTy, result))
    /\ ops' = Append(ops, name)

----------------------------------------------------------------------------
\* one action per function of the library

Call_Pos_zero == Call("Pos_zero", "noargs", "Pos", Pos_zero)

Call_Pos_new == Call("Pos_new", "args2", "Pos", Pos_new(Arg[1], Arg[2]))

Call_Pos_new_same == Call("Pos_new_same", "usize", "Pos", Pos_new_same(Arg))

Call_Pos_default == Call("Pos_default", "noargs", "Pos", Pos_default)

Call_Pos_from_tuple2 == Call("Pos_from_tuple2", "tuple2", "Pos", Pos_from_tuple2(Arg))

Call_Pos_from_arr2 == Call("Pos_from_arr2", "arr2", "Pos", Pos_from_arr2(Arg))

Call_Pos_into_tuple2 == Call("Pos_into_tuple2", "Pos", "tuple2", Pos_into_tuple2(Arg))

Call_Pos_into_arr2 == Call("Pos_into_arr2", "Pos", "arr2", Pos_into_arr2(Arg))

Call_Pos_from_usize == Call("Pos_from_usize", "usize", "Pos", Pos_from_usize(Arg))

Call_Pos_into_usize == Call("Pos_into_usize", "Pos", "usize", Pos_into_usize(Arg))

Call_Pos_from_arr1 == Call("Pos_from_arr1", "arr1", "Pos", Pos_from_arr1(Arg))

Call_Pos_into_arr1 == Call("Pos_into_arr1", "Pos", "arr1", Pos_into_arr1(Arg))

Call_Pos_from_unit == Call("Pos_from_unit", "unit", "Pos", Pos_from_unit(Arg))

Call_Pos_from_arr0 == Call("Pos_from_arr0", "arr0", "Pos", Pos_from_arr0(Arg))

Call_pos == Call("pos", "args2", "Pos", pos(Arg[1], Arg[2]))

Call_Pos_cmp == Call("Pos_cmp", "PosPos", "Ordering", Pos_cmp(Arg[1], Arg[2]))

Call_Pos_eq == Call("Pos_eq", "PosPos", "bool", Pos_eq(Arg[1], Arg[2]))

Call_Loc_new == Call("Loc_new", "PosPos", "Loc", Loc_new(Arg[1], Arg[2]))

Call_Loc_new_at == Call("Loc_new_at", "args4", "Loc", Loc_new_at(Arg[1], Arg[2], Arg[3], Arg[4]))

Call_Loc_zero == Call("Loc_zero", "noargs", "Loc", Loc_zero)

Call_Loc_new_same == Call("Loc_new_same", "usize", "Loc", Loc_new_same(Arg))

Call_Loc_new_same_pos == Call("Loc_new_same_pos", "Pos", "Loc", Loc_new_same_pos(Arg))

Call_Loc_default == Call("Loc_default", "noargs", "Loc", Loc_default)

Call_Loc_from_tuple4 == Call("Loc_from_tuple4", "tuple4", "Loc", Loc_from_tuple4(Arg))

Call_Loc_into_tuple4 == Call("Loc_into_tuple4", "Loc", "tuple4", Loc_into_tuple4(Arg))

Call_Loc_from_arr4 == Call("Loc_from_arr4", "arr4", "Loc", Loc_from_arr4(Arg))

Call_Loc_into_arr4 == Call("Loc_into_arr4", "Loc", "arr4", Loc_into_arr4(Arg))

Call_Loc_from_tuple2x2 == Call("Loc_from_tuple2x2", "tuple2x2", "Loc", Loc_from_tuple2x2(Arg))

Call_Loc_into_tuple2x2 == Call("Loc_into_tuple2x2", "Loc", "tuple2x2", Loc_into_tuple2x2(Arg))

Call_Loc_from_arr2x2 == Call("Loc_from_arr2x2", "arr2x2", "Loc", Loc_from_arr2x2(Arg))

Call_Loc_into_arr2x2 == Call("Loc_into_arr2x2", "Loc", "arr2x2", Loc_into_arr2x2(Arg))

Call_Loc_from_arrtup2 == Call("Loc_from_arrtup2", "arrtup2", "Loc", Loc_from_arrtup2(Arg))

Call_Loc_into_arrtup2 == Call("Loc_into_arrtup2", "Loc", "arrtup2", Loc_into_arrtup2(Arg))

Call_Loc_from_tuparr2 == Call("Loc_from_tuparr2", "tuparr2", "Loc", Loc_from_tuparr2(Arg))

Call_Loc_into_tuparr2 == Call("Loc_into_tuparr2", "Loc", "tuparr2", Loc_into_tuparr2(Arg))

Call_Loc_from_tuple2 == Call("Loc_from_tuple2", "tuple2", "Loc", Loc_from_tuple2(Arg))

Call_Loc_into_tuple2 == Call("Loc_into_tuple2", "Loc", "tuple2", Loc_into_tuple2(Arg))

Call_Loc_from_arr2 == Call("Loc_from_arr2", "arr2", "Loc", Loc_from_arr2(Arg))

Call_Loc_into_arr2 == Call("Loc_into_arr2", "Loc", "arr2", Loc_into_arr2(Arg))

Call_Loc_from_usize == Call("Loc_from_usize", "usize", "Loc", Loc_from_usize(Arg))

Call_Loc_into_usize == Call("Loc_into_usize", "Loc", "usize", Loc_into_usize(Arg))

Call_Loc_from_arr1 == Call("Loc_from_arr1", "arr1", "Loc", Loc_from_arr1(Arg))

Call_Loc_into_arr1 == Call("Loc_into_arr1", "Loc", "arr1", Loc_into_arr1(Arg))

Call_Loc_from_unit == Call("Loc_from_unit", "unit", "Loc", Loc_from_unit(Arg))

Call_Loc_from_arr0 == Call("Loc_from_arr0", "arr0", "Loc", Loc_from_arr0(Arg))

Call_Loc_from_Range == Call("Loc_from_Range", "Range", "Loc", Loc_from_Range(Arg))

Call_Loc_into_Range == Call("Loc_into_Range", "Loc", "Range", Loc_into_Range(Arg))

Call_Loc_from_RangeTo == Call("Loc_from_RangeTo", "RangeTo", "Loc", Loc_from_RangeTo(Arg))

Call_Loc_into_RangeTo == Call("Loc_into_RangeTo", "Loc", "RangeTo", Loc_into_RangeTo(Arg))

Call_Loc_into_RangeFrom == Call("Loc_into_RangeFrom", "Loc", "RangeFrom", Loc_into_RangeFrom(Arg))

Call_Loc_from_tuplePos2 == Call("Loc_from_tuplePos2", "tuplePos2", "Loc", Loc_from_tuplePos2(Arg))

Call_Loc_into_tuplePos2 == Call("Loc_into_tuplePos2", "Loc", "tuplePos2", Loc_into_tuplePos2(Arg))

Call_Loc_from_arrPos2 == Call("Loc_from_arrPos2", "arrPos2", "Loc", Loc_from_arrPos2(Arg))

Call_Loc_into_arrPos2 == Call("Loc_into_arrPos2", "Loc", "arrPos2", Loc_into_arrPos2(Arg))

Call_Loc_from_Pos == Call("Loc_from_Pos", "Pos", "Loc", Loc_from_Pos(Arg))

Call_Loc_into_Pos == Call("Loc_into_Pos", "Loc", "Pos", Loc_into_Pos(Arg))

Call_Loc_from_arrPos1 == Call("Loc_from_arrPos1", "arrPos1", "Loc", Loc_from_arrPos1(Arg))

Call_Loc_into_arrPos1 == Call("Loc_into_arrPos1", "Loc", "arrPos1", Loc_into_arrPos1(Arg))

Call_loc == Call("loc", "PosPos", "Loc", loc(Arg[1], Arg[2]))

Call_Loc_cmp == Call("Loc_cmp", "LocLoc", "Ordering", Loc_cmp(Arg[1], Arg[2]))

Call_Loc_eq == Call("Loc_eq", "LocLoc", "bool", Loc_eq(Arg[1], Arg[2]))

Next ==
    \/ Call_Pos_zero
    \/ Call_Pos_new
    \/ Call_Pos_new_same
    \/ Call_Pos_default
    \/ Call_Pos_from_tuple2
    \/ Call_Pos_from_arr2
    \/ Call_Pos_into_tuple2
    \/ Call_Pos_into_arr2
    \/ Call_Pos_from_usize
    \/ Call_Pos_into_usize
    \/ Call_Pos_from_arr1
    \/ Call_Pos_into_arr1
    \/ Call_Pos_from_unit
    \/ Call_Pos_from_arr0
    \/ Call_pos
    \/ Call_Pos_cmp
    \/ Call_Pos_eq
    \/ Call_Loc_new
    \/ Call_Loc_new_at
    \/ Call_Loc_zero
    \/ Call_Loc_new_same
    \/ Call_Loc_new_same_pos
    \/ Call_Loc_default
    \/ Call_Loc_from_tuple4
    \/ Call_Loc_into_tuple4
    \/ Call_Loc_from_arr4
    \/ Call_Loc_into_arr4
    \/ Call_Loc_from_tuple2x2
    \/ Call_Loc_into_tuple2x2
    \/ Call_Loc_from_arr2x2
    \/ Call_Loc_into_arr2x2
    \/ Call_Loc_from_arrtup2
    \/ Call_Loc_into_arrtup2
    \/ Call_Loc_from_tuparr2
    \/ Call_Loc_into_tuparr2
    \/ Call_Loc_from_tuple2
    \/ Call_Loc_into_tuple2
    \/ Call_Loc_from_arr2
    \/ Call_Loc_into_arr2
    \/ Call_Loc_from_usize
    \/ Call_Loc_into_usize
    \/ Call_Loc_from_arr1
    \/ Call_Loc_into_arr1
    \/ Call_Loc_from_unit
    \/ Call_Loc_from_arr0
    \/ Call_Loc_from_Range
    \/ Call_Loc_into_Range
    \/ Call_Loc_from_RangeTo
    \/ Call_Loc_into_RangeTo
    \/ Call_Loc_into_RangeFrom
    \/ Call_Loc_from_tuplePos2
    \/ Call_Loc_into_tuplePos2
    \/ Call_Loc_from_arrPos2
    \/ Call_Loc_into_arrPos2
    \/ Call_Loc_from_Pos
    \/ Call_Loc_into_Pos
    \/ Call_Loc_from_arrPos1
    \/ Call_Loc_into_arrPos1
    \/ Call_loc
    \/ Call_Loc_cmp
    \/ Call_Loc_eq

Spec == Init /\ [][Next]_vars

----------------------------------------------------------------------------
\* Properties.  Step(i, f): the i-th call of the chain is f, its argument
\* is In(i) and its result is Out(i).

Steps == 1..Len(ops)

In(i) == vals[i].v

Out(i) == vals[i + 1].v

Step(i, f) == i \in Steps /\ ops[i] = f

\* the conversions of all the fields, out of the struct and back
FullArity ==
    {<<"Pos_into_arr2", "Pos_from_arr2">>,
     <<"Pos_into_tuple2", "Pos_from_tuple2">>,
     <<"Loc_into_tuple4", "Loc_from_tuple4">>,
     <<"Loc_into_arr4", "Loc_from_arr4">>,
     <<"Loc_into_tuple2x2", "Loc_from_tuple2x2">>,
     <<"Loc_into_arr2x2", "Loc_from_arr2x2">>,
     <<"Loc_into_tuplePos2", "Loc_from_tuplePos2">>,
     <<"Loc_into_arrPos2", "Loc_from_arrPos2">>,
     <<"Loc_into_Range", "Loc_from_Range">>}

\* C1: a Pos or a Loc converted to a tuple, array or range of all its
\* fields and converted back is the value it was.
C1_RoundTrip ==
    \A i \in Steps : \A rt \in FullArity :
        (Step(i, rt[1]) /\ Step(i + 1, rt[2])) => vals[i + 2] = vals[i]

C1_Witness ==
    /\ ops = <<"Loc_into_tuple4", "Loc_from_tuple4">>
    /\ vals[1].v.from.line # vals[1].v.from.column
    /\ vals[1].v.from # vals[1].v.to
    /\ vals[3] = vals[1]

\* C2: the start of the RangeFrom a Loc converts into is the Loc's from.
C2_RangeFromIsFrom ==
    \A i \in Steps :
        Step(i, "Loc_into_RangeFrom") => Out(i).start = In(i).from

C3_Forms ==
    {"Loc_new", "Loc_new_at", "Loc_from_tuple4", "Loc_from_arr2x2",
     "Loc_from_tuple2x2", "Loc_from_tuplePos2", "loc", "Loc_from_Range"}

\* the argument each form of the claim is called with
C3_Argument(f, a, b, c, d) ==
    CASE f = "Loc_new" -> <<Pos_new(a, b), Pos_new(c, d)>>
      [] f = "Loc_new_at" -> <<a, b, c, d>>
      [] f = "Loc_from_tuple4" -> <<a, b, c, d>>
      [] f = "Loc_from_arr2x2" -> <<<<a, b>>, <<c, d>>>>
      [] f = "Loc_from_tuple2x2" -> <<<<a, b>>, <<c, d>>>>
      [] f = "Loc_from_tuplePos2" -> <<Pos_new(a, b), Pos_new(c, d)>>
      [] f = "loc" -> <<pos(a, b), pos(c, d)>>
      [] f = "Loc_from_Range" -> [start |-> Pos_from_tuple2(<<a, b>>),
                                  end |-> Pos_from_tuple2(<<c, d>>)]

\* C3: every way of building a Loc from a, b, c, d gives from = (line a,
\* column b) and to = (line c, column d).
C3_Construction ==
    \A i \in Steps :
        /\ (Step(i, "Pos_new") \/ Step(i, "pos") \/ Step(i, "Pos_from_tuple2")) =>
            \A a, b \in Usize :
                In(i) = <<a, b>> => Out(i) = [line |-> a, column |-> b]
        /\ (\E f \in C3_Forms : Step(i, f)) =>
            \A a, b, c, d \in Usize :
                In(i) = C3_Argument(ops[i], a, b, c, d)
                    => Out(i) = [from |-> [line |-> a, column |-> b],
                                 to |-> [line |-> c, column |-> d]]

\* as in test_loc_macro, with four scalars that tell the fields apart
C3_Witness ==
    /\ ops = <<"Loc_new_at">>
    /\ vals[1].v = <<1, 2, 0, 1>>
    /\ vals[2].v = [from |-> [line |-> 1, column |-> 2],
                    to |-> [line |-> 0, column |-> 1]]

\* C4: a value broadcast to a Pos is its line and its column; broadcast to
\* a Loc it is both ends; a Pos broadcast to a Loc is both ends.
C4_Broadcast ==
    \A i \in Steps :
        /\ (Step(i, "Pos_new_same") \/ Step(i, "Pos_from_usize"))
            => Out(i).line = In(i) /\ Out(i).column = In(i)
        /\ Step(i, "Pos_from_arr1")
            => Out(i).line = In(i)[1] /\ Out(i).column = In(i)[1]
        /\ (Step(i, "Loc_new_same") \/ Step(i, "Loc_from_usize"))
            => /\ Out(i).from = [line |-> In(i), column |-> In(i)]
               /\ Out(i).to = Out(i).from
               /\ Out(i).from = Pos_new_same(In(i))
        /\ Step(i, "Loc_from_arr1")
            => /\ Out(i).from = [line |-> In(i)[1], column |-> In(i)[1]]
               /\ Out(i).to = Out(i).from
               /\ Out(i).from = Pos_new_same(In(i)[1])
        /\ Step(i, "Loc_new_same_pos")
            => Out(i).from = In(i) /\ Out(i).to = In(i)

C4_Witness ==
    /\ ops = <<"Pos_new_same", "Loc_new_same_pos">>
    /\ vals[1].v = 2
    /\ vals[3].v.from = [line |-> 2, column |-> 2]
    /\ vals[3].v.to = [line |-> 2, column |-> 2]

\* C5: zero(), default() and the conversions of () and of [] return the
\* position 0:0, and the Loc from 0:0 to 0:0.
C5_Zero ==
    \A i \in Steps :
        /\ (\E f \in {"Pos_zero", "Pos_default", "Pos_from_unit", "Pos_from_arr0"} :
                Step(i, f))
            => /\ Out(i) = [line |-> 0, column |-> 0]
               /\ Out(i) = Pos_new_same(0)
        /\ (\E f \in {"Loc_zero", "Loc_default", "Loc_from_unit", "Loc_from_arr0"} :
                Step(i, f))
            => /\ Out(i) = [from |-> [line |-> 0, column |-> 0],
                            to |-> [line |-> 0, column |-> 0]]
               /\ Out(i) = Loc_new_same_pos(Pos_zero)

C5_Witness ==
    /\ ops = <<"Pos_zero", "Loc_new_same_pos">>
    /\ vals[3].v.to = [line |-> 0, column |-> 0]

\* the order the claim states, on the fields
LexLess(a, b) == a.line < b.line \/ (a.line = b.line /\ a.column < b.column)

ExactlyOne(p, q, r) ==
    (p /\ ~q /\ ~r) \/ (~p /\ q /\ ~r) \/ (~p /\ ~q /\ r)

\* C6: the order of Pos is the lexicographic order of (line, column), the
\* order of Loc that of (from, to); exactly one of <, ==, > holds; equality
\* is the equality of all the fields.
C6_Ordering ==
    \A i \in Steps :
        /\ Step(i, "Pos_cmp") =>
            LET a == In(i)[1]
                b == In(i)[2]
            IN  /\ (Out(i) = "Less") <=> LexLess(a, b)
                /\ (Out(i) = "Greater") <=> LexLess(b, a)
                /\ (Out(i) = "Equal") <=> (a = b)
                /\ ExactlyOne(Out(i) = "Less", Pos_eq(a, b), Out(i) = "Greater")
        /\ Step(i, "Pos_eq") => (Out(i) <=> (In(i)[1] = In(i)[2]))
        /\ Step(i, "Loc_cmp") =>
            LET x == In(i)[1]
                y == In(i)[2]
            IN  /\ (Out(i) = "Less")
                    <=> (LexLess(x.from, y.from)
                            \/ (x.from = y.from /\ LexLess(x.to, y.to)))
                /\ (Out(i) = "Greater")
                    <=> (LexLess(y.from, x.from)
                            \/ (x.from = y.from /\ LexLess(y.to, x.to)))
                /\ (Out(i) = "Equal") <=> (x = y)
                /\ ExactlyOne(Out(i) = "Less", Loc_eq(x, y), Out(i) = "Greater")
        /\ Step(i, "Loc_eq") => (Out(i) <=> (In(i)[1] = In(i)[2]))

\* the line and the column disagree about the order
C6_Witness ==
    /\ ops = <<"Pos_cmp">>
    /\ vals[1].v[1].line < vals[1].v[2].line
    /\ vals[1].v[1].column > vals[1].v[2].column
    /\ vals[2].v = "Less"

\* C7: the conversions to fewer fields return the first ones: the line of
\* a Pos, the from of a Loc, its line and column, or its line.
C7_Lossy ==
    \A i \in Steps :
        /\ Step(i, "Pos_into_usize") => Out(i) = In(i).line
        /\ Step(i, "Pos_into_arr1") => Out(i) = <<In(i).line>>
        /\ Step(i, "Loc_into_Pos") => Out(i) = In(i).from
        /\ Step(i, "Loc_into_arrPos1") => Out(i) = <<In(i).from>>
        /\ (Step(i, "Loc_into_tuple2") \/ Step(i, "Loc_into_arr2"))
            => Out(i) = <<In(i).from.line, In(i).from.column>>
        /\ Step(i, "Loc_into_usize") => Out(i) = In(i).from.line
        /\ Step(i, "Loc_into_arr1") => Out(i) = <<In(i).from.line>>

C7_Witness ==
    /\ ops = <<"Loc_into_usize">>
    /\ vals[1].v.from.line = 1
    /\ vals[1].v.to.line = 2
    /\ vals[1].v.from.column = 0
    /\ vals[2].v = 1

\* C8: ..e converts to the Loc from 0:0 to e; a Loc converts to ..to;
\* RangeTo -> Loc -> RangeTo is the identity, and Loc -> RangeTo -> Loc
\* gives the Loc back only when its from is 0:0.
C8_RangeTo ==
    \A i \in Steps :
        /\ Step(i, "Loc_from_RangeTo")
            => /\ Out(i).from = [line |-> 0, column |-> 0]
               /\ Out(i).to = In(i).end
        /\ Step(i, "Loc_into_RangeTo") => Out(i) = [end |-> In(i).to]
        /\ (Step(i, "Loc_from_RangeTo") /\ Step(i + 1, "Loc_into_RangeTo"))
            => vals[i + 2] = vals[i]
        /\ (Step(i, "Loc_into_RangeTo") /\ Step(i + 1, "Loc_from_RangeTo"))
            => ((vals[i + 2] = vals[i])
                    <=> (In(i).from = [line |-> 0, column |-> 0]))

C8_Witness ==
    /\ ops = <<"Loc_into_RangeTo", "Loc_from_RangeTo">>
    /\ vals[1].v.from = [line |-> 1, column |-> 0]
    /\ vals[3] # vals[1]
    /\ vals[3].v.to = vals[1].v.to

\* C9: every call returns a value of its result type, a call is possible
\* for every argument of the function's type, and Loc::new (as the
\* conversion of a range) keeps from and to as given, from > to included.
C9_Total ==
    /\ \A k \in 1..Len(vals) : vals[k].v \in Dom(vals[k].ty)
    /\ (Len(ops) < MaxChain /\ ArgTy = "PosPos") => ENABLED Call_Loc_new
    /\ (Len(ops) < MaxChain /\ ArgTy = "Range") => ENABLED Call_Loc_from_Range
    /\ \A i \in Steps :
        /\ Step(i, "Loc_new")
            => Out(i).from = In(i)[1] /\ Out(i).to = In(i)[2]
        /\ Step(i, "Loc_from_Range")
            => Out(i).from = In(i).start /\ Out(i).to = In(i).end

C9_Witness ==
    /\ ops = <<"Loc_new">>
    /\ Pos_cmp(vals[1].v[1], vals[1].v[2]) = "Greater"
    /\ vals[2].v.from = vals[1].v[1]
    /\ vals[2].v.to = vals[1].v[2]

\* C10: usize -> Pos -> usize, usize -> Loc -> usize and Pos -> Loc -> Pos
\* are the identity; Pos -> usize -> Pos gives the Pos back iff its line is
\* its column, Loc -> Pos -> Loc gives the Loc back iff its from is its to.
C10_Collapse ==
    \A i \in Steps :
        /\ (Step(i, "Pos_from_usize") /\ Step(i + 1, "Pos_into_usize"))
            => vals[i + 2] = vals[i]
        /\ (Step(i, "Loc_from_usize") /\ Step(i + 1, "Loc_into_usize"))
            => vals[i + 2] = vals[i]
        /\ (Step(i, "Loc_from_Pos") /\ Step(i + 1, "Loc_into_Pos"))
            => vals[i + 2] = vals[i]
        /\ (Step(i, "Pos_into_usize") /\ Step(i + 1, "Pos_from_usize"))
            => ((vals[i + 2] = vals[i]) <=> (In(i).line = In(i).column))
        /\ (Step(i, "Loc_into_Pos") /\ Step(i + 1, "Loc_from_Pos"))
            => ((vals[i + 2] = vals[i]) <=> (In(i).from = In(i).to))

C10_Witness ==
    /\ ops = <<"Loc_into_Pos", "Loc_from_Pos">>
    /\ vals[1].v.from # vals[1].v.to
    /\ vals[3] # vals[1]
    /\ vals[3].v.from = vals[1].v.from

====
